---- MODULE Spec2Model ----
(***************************************************************************)
(* OptimizedChatService (src/src/services/optimizedChatService.ts): the    *)
(* expiring cache, the usage meter, the debounced listener registry and    *)
(* the send path, with the JavaScript timer queue and the remote store's   *)
(* push subscriptions as the environment.                                  *)
(***************************************************************************)
EXTENDS Integers, Sequences, FiniteSets, TLC

(* ---------------- program constants ---------------- *)
CACHE_DURATION == 30000
DEFAULT_MESSAGE_LIMIT == 50
MAX_PRESENCE_USERS == 20
maxReadsPerDay == 500
LOAD_MORE_LIMIT == 50
HOOK_CONVERSATION_LIMIT == 50
HOOK_MESSAGE_LIMIT == 100
DATA_SOURCES_FIREBASE_LIMIT == 10
OPTIMIZED_FIREBASE_LIMIT == 100
FIREBASE_SLICE == 100
SHEETS_SLICE == 15
WEBHOOK_SLICE == 15
AGGREGATE_SLICE == 100
MS_PER_HOUR == 1000 * 60 * 60
RESET_HOURS == 24

(* ---------------- bounds of the model ---------------- *)
\* setupDebouncedListener calls in one behaviour
MaxTimers == 3
\* the read counter is not raised past this (Spec)
MaxSessionReads == 1
\* the read counter is not raised past this (SpecLimit, SpecUsage, SpecSend)
MaxReads == 650
\* the write counter is not raised past this (SpecUsage)
MaxWrites == 2
\* sendMessage calls in one behaviour
MaxSends == 2
\* the clock is not advanced past this in SpecCache
MaxCacheNow == 60001
\* getDocs queries in flight at once
MaxLoads == 1
\* the clock is not advanced past this
MaxNow == 86500000
\* useDataSources' webhookMessages is not grown past this length
MaxWebhookMessages == 2
\* documents in the largest remote collection
MaxCollection == 150
\* reads counted while paging
MaxPagingReads == 8

Conversations == {"c1"}
OperatorScopes == {"all"}
MessageLimits == {DEFAULT_MESSAGE_LIMIT, HOOK_MESSAGE_LIMIT}
PresenceLists == {<<>>, <<"u1">>}

VARIABLES
  now,              \* Date.now()
  cache,            \* OptimizedChatService.cache
  debounceTimers,   \* OptimizedChatService.debounceTimers: key -> timer id
  activeListeners,  \* OptimizedChatService.activeListeners: key -> handle id
  usageStats,       \* OptimizedChatService.usageStats
  timers,           \* every setTimeout made by setupDebouncedListener, by id
  pendingTimers,    \* ids the runtime still holds (not fired, not cleared)
  handles,          \* remote subscriptions made by onSnapshot, by id
  inflight,         \* snapshots the remote store has sent and not yet delivered
  pendingLoads,     \* getDocs queries awaiting their response
  storeMsgs,        \* the remote chat_messages collection, in commit order
  storeConv,        \* the remote conversations documents
  pendingBatches,   \* write batches committed by the client and not yet answered
  out,              \* what the last step did that a caller can observe
  enabled,          \* config.enabled of the data-source hooks
  webhookMessages,  \* the data-source hook's webhookMessages state
  firebaseData,     \* useFirestoreCollection's data state
  sheetsData,       \* useGoogleSheets' data state
  isRateLimited,    \* useOptimizedDataSources' isRateLimited state
  chatMessages,     \* useOptimizedChatService's messages state, by conversation
  lastMessageDocs,  \* useOptimizedChatService's lastMessageDocs ref, by conversation
  inflightTyping,   \* typing timers that fired and await their updateDoc
  typingLog         \* the presence writes of setTypingStatus the store applied

store == <<storeMsgs, storeConv, pendingBatches>>

feeds == <<enabled, webhookMessages, firebaseData, sheetsData, isRateLimited>>

chat == <<chatMessages, lastMessageDocs>>

typing == <<inflightTyping, typingLog>>

service == <<now, cache, debounceTimers, activeListeners, usageStats, timers, pendingTimers,
             handles, inflight, pendingLoads, storeMsgs, storeConv, pendingBatches>>

vars == <<now, cache, debounceTimers, activeListeners, usageStats, timers,
          pendingTimers, handles, inflight, pendingLoads, storeMsgs, storeConv,
          pendingBatches, out, enabled, webhookMessages, firebaseData, sheetsData,
          isRateLimited, chatMessages, lastMessageDocs, inflightTyping, typingLog>>

(* ---------------- finite maps ---------------- *)
EmptyMap == [x \in {} |-> 0]
MapSet(m, k, v) == [x \in (DOMAIN m) \cup {k} |-> IF x = k THEN v ELSE m[x]]
MapDel(m, k) == [x \in (DOMAIN m) \ {k} |-> m[x]]

\* out: the operation the last step performed and what a caller can observe of it
Quiet == [op |-> "none"]

(* ---------------- usage meter ---------------- *)
\* mutant: the window resets only after more than 24 hours
WindowElapsedLate(stats, t) == (t - stats.lastReset) > RESET_HOURS * MS_PER_HOUR

\* getUsageStats: hoursSinceReset >= 24 resets the window
WindowElapsed(stats, t) == (t - stats.lastReset) >= RESET_HOURS * MS_PER_HOUR

GetUsageStats(stats, t) ==
  IF WindowElapsed(stats, t) THEN [reads |-> 0, writes |-> 0, lastReset |-> t] ELSE stats

IncrementReads(stats, count) == [stats EXCEPT !.reads = @ + count]

\* variant: every call counts one write, whatever the count passed
IncrementWritesByOne(stats, count) == [stats EXCEPT !.writes = @ + 1]

IncrementWrites(stats, count) == [stats EXCEPT !.writes = @ + count]

\* mutant: the breaker already trips at the ceiling
RateLimitOkBelow(stats) == ~(stats.reads >= maxReadsPerDay)

\* checkRateLimit's result on the stats getUsageStats returned
RateLimitOk(stats) == ~(stats.reads > maxReadsPerDay)

CheckRateLimit(stats, t) == RateLimitOk(GetUsageStats(stats, t))

\* variant: the warning already starts at 80% of the ceiling
NearLimitFromThreshold(stats) == stats.reads * 10 >= maxReadsPerDay * 8

\* checkRateLimit's test "stats.reads > maxReadsPerDay * 0.8"
NearLimit(stats) == stats.reads * 10 > maxReadsPerDay * 8

(* ---------------- expiring cache ---------------- *)
\* mutant: the entry is already expired at expiresAt
CacheExpiredAtDeadline(entry, t) == t >= entry.expiresAt

\* getCachedData's test "Date.now() > cached.expiresAt"
CacheExpired(entry, t) == t > entry.expiresAt

\* getCachedData: the value returned, <<data>>, or <<>> for null
GetCachedData(c, key, t) ==
  IF key \notin DOMAIN c THEN <<>>
  ELSE IF CacheExpired(c[key], t) THEN <<>>
  ELSE <<c[key].data>>

\* getCachedData: the cache it leaves behind (an expired entry is deleted)
CacheAfterGet(c, key, t) ==
  IF key \in DOMAIN c /\ CacheExpired(c[key], t) THEN MapDel(c, key) ELSE c

SetCachedData(c, key, data, duration, t) ==
  MapSet(c, key, [data |-> data, timestamp |-> t, expiresAt |-> t + duration])

(* ---------------- keys ---------------- *)
ConvCacheKey(op, lim) == <<"conversations", op, lim>>
ConvListenerKey(op) == <<"conv_listener", op>>
MsgCacheKey(c, lim) == <<"messages", c, lim>>
MsgListenerKey(c) == <<"msg_listener", c>>
\* limitedUserIds.sort().join('_') for the lists of PresenceLists
JoinIds(ids) == IF Len(ids) = 0 THEN "" ELSE ids[1]
PresenceCacheKey(ids) == <<"presence", JoinIds(ids), 0>>
PresenceListenerKey(ids) == <<"presence_listener", JoinIds(ids)>>

ListenerKeys ==
  {ConvListenerKey(o) : o \in OperatorScopes} \cup {MsgListenerKey(c) : c \in Conversations}
    \cup {PresenceListenerKey(u) : u \in PresenceLists}

(* ---------------- debounced listener management ---------------- *)
\* the registry's entry for a key, 0 when it has none
Registered(m, key) == IF key \in DOMAIN m THEN m[key] ELSE 0

\* mutant: the existing timer is looked up and not cleared
ClearExistingTimerSkipped(key) == pendingTimers

\* the runtime's timers after "if (existingTimer) clearTimeout(existingTimer)"
ClearExistingTimer(key) ==
  IF key \in DOMAIN debounceTimers THEN pendingTimers \ {debounceTimers[key]}
  ELSE pendingTimers

\* a handle's cancellation function: idempotent
Cancelled(hs, h) == [hs EXCEPT ![h].active = FALSE]

\* mutant: the existing listener is looked up and not invoked
CancelExistingListenerSkipped(key) == handles

\* the subscriptions after "if (existingListener) existingListener()"
CancelExistingListener(key) ==
  IF key \in DOMAIN activeListeners THEN Cancelled(handles, activeListeners[key])
  ELSE handles

\* the settle delay is abstracted: a scheduled timer may expire at any later step
SetupDebouncedListener(key, cacheKey) ==
  /\ Len(timers) < MaxTimers
  /\ LET id == Len(timers) + 1 IN
       /\ timers' = Append(timers, [key |-> key, cacheKey |-> cacheKey,
                                 over |-> Registered(debounceTimers, key)])
       /\ pendingTimers' = ClearExistingTimer(key) \cup {id}
       /\ handles' = CancelExistingListener(key)
       /\ debounceTimers' = MapSet(debounceTimers, key, id)
       /\ UNCHANGED activeListeners

\* a caller (the hook's effects) consults checkRateLimit, then the subscribe
\* function looks the cache up (calling back on a hit) and sets the listener up
Subscribe(key, cacheKey) ==
  /\ CheckRateLimit(usageStats, now)
  /\ usageStats' = GetUsageStats(usageStats, now)
  /\ cache' = CacheAfterGet(cache, cacheKey, now)
  /\ SetupDebouncedListener(key, cacheKey)
  /\ out' = [op |-> "subscribe", key |-> key, id |-> Len(timers) + 1,
             cb |-> GetCachedData(cache, cacheKey, now) # <<>>,
             existingListener |-> Registered(activeListeners, key),
             wasLive |-> key \in DOMAIN activeListeners /\ handles[activeListeners[key]].active]
  /\ UNCHANGED <<chat, typing, feeds, store, now, inflight, pendingLoads>>

SubscribeToConversations(op, limitCount) ==
  Subscribe(ConvListenerKey(op), ConvCacheKey(op, limitCount))

SubscribeToMessages(c, limitCount) ==
  Subscribe(MsgListenerKey(c), MsgCacheKey(c, limitCount))

\* an empty user list calls back with {} and returns a no-op
SubscribeToPresence(userIds) ==
  IF Len(userIds) = 0
  THEN /\ CheckRateLimit(usageStats, now)
       /\ usageStats' = GetUsageStats(usageStats, now)
       /\ out' = [op |-> "subscribe", key |-> PresenceListenerKey(userIds), id |-> 0,
                  cb |-> TRUE, existingListener |-> 0, wasLive |-> FALSE]
       /\ UNCHANGED <<chat, typing, feeds, store, now, cache, debounceTimers, activeListeners,
                      timers, pendingTimers,
                      handles, inflight, pendingLoads>>
  ELSE Subscribe(PresenceListenerKey(userIds), PresenceCacheKey(userIds))

\* the setTimeout callback of setupDebouncedListener: listenerFn() calls onSnapshot
TimerFire(id) ==
  /\ id \in pendingTimers
  /\ timers[id].key[1] # "typing"
  /\ LET key == timers[id].key IN
       /\ handles' = MapSet(handles, id, [active |-> TRUE])
       /\ activeListeners' = MapSet(activeListeners, key, id)
       /\ debounceTimers' = MapDel(debounceTimers, key)
       /\ pendingTimers' = pendingTimers \ {id}
       /\ out' = [op |-> "factory", key |-> key, id |-> id, rd |-> TRUE]
  /\ UNCHANGED <<chat, typing, feeds, store, now, cache, usageStats, timers, inflight,
                 pendingLoads>>

\* mutant: the closure deletes the timer's registry entry without clearTimeout
UnsubscribeKeepsTimer(key) ==
  /\ \E i \in 1..Len(timers) : timers[i].key = key
  /\ debounceTimers' = MapDel(debounceTimers, key)
  /\ handles' = CancelExistingListener(key)
  /\ activeListeners' = MapDel(activeListeners, key)
  /\ out' = [op |-> "unsubscribe", key |-> key, timer |-> Registered(debounceTimers, key),
             handle |-> Registered(activeListeners, key)]
  /\ UNCHANGED <<chat, typing, feeds, store, now, cache, usageStats, timers, pendingTimers,
                 inflight, pendingLoads>>

\* mutant: the closure clears the timer and leaves the listener subscribed
UnsubscribeKeepsListener(key) ==
  /\ \E i \in 1..Len(timers) : timers[i].key = key
  /\ pendingTimers' = ClearExistingTimer(key)
  /\ debounceTimers' = MapDel(debounceTimers, key)
  /\ out' = [op |-> "unsubscribe", key |-> key, timer |-> Registered(debounceTimers, key),
             handle |-> Registered(activeListeners, key)]
  /\ UNCHANGED <<chat, typing, feeds, store, now, cache, usageStats, timers, handles,
                 activeListeners, inflight,
                 pendingLoads>>

\* the cleanup closure a subscribe call returns
Unsubscribe(key) ==
  /\ \E i \in 1..Len(timers) : timers[i].key = key
  /\ pendingTimers' = ClearExistingTimer(key)
  /\ debounceTimers' = MapDel(debounceTimers, key)
  /\ handles' = CancelExistingListener(key)
  /\ activeListeners' = MapDel(activeListeners, key)
  /\ out' = [op |-> "unsubscribe", key |-> key, timer |-> Registered(debounceTimers, key),
             handle |-> Registered(activeListeners, key)]
  /\ UNCHANGED <<chat, typing, feeds, store, now, cache, usageStats, timers, inflight,
                 pendingLoads>>

\* the closure returned by the subscribe call that scheduled timer i, invoked
\* by the consumer that made the call: it reads both registries by the
\* listener key of the call
UnsubscribeClosure(i) ==
  /\ i \in 1..Len(timers)
  /\ timers[i].key \in ListenerKeys
  /\ Unsubscribe(timers[i].key)

Cleanup ==
  /\ pendingTimers' = pendingTimers \ {debounceTimers[k] : k \in DOMAIN debounceTimers}
  /\ debounceTimers' = EmptyMap
  /\ handles' = [h \in DOMAIN handles |->
                   IF \E k \in DOMAIN activeListeners : activeListeners[k] = h
                   THEN [handles[h] EXCEPT !.active = FALSE] ELSE handles[h]]
  /\ activeListeners' = EmptyMap
  /\ cache' = EmptyMap
  /\ out' = [op |-> "cleanup"]
  /\ UNCHANGED <<chat, typing, feeds, store, now, usageStats, timers, inflight, pendingLoads>>

(* ---------------- the remote store's push channel ---------------- *)
LimitOf(cacheKey) == IF cacheKey[1] = "presence" THEN MAX_PRESENCE_USERS ELSE cacheKey[3]

\* the store sends a snapshot of n documents to a subscription that is live;
\* cancelling the subscription afterwards does not recall it
Emit(h, n) ==
  /\ h \in DOMAIN handles
  /\ handles[h].active
  /\ h \notin DOMAIN inflight
  /\ n <= LimitOf(timers[h].cacheKey)
  /\ inflight' = MapSet(inflight, h, n)
  /\ out' = [op |-> "emit", key |-> timers[h].key, id |-> h]
  /\ UNCHANGED <<chat, typing, feeds, store, now, cache, debounceTimers, activeListeners,
                 usageStats, timers,
                 pendingTimers, handles, pendingLoads>>

\* the onSnapshot callback: incrementReads, setCachedData, callback
Deliver(h, cap) ==
  /\ h \in DOMAIN inflight
  /\ usageStats.reads + inflight[h] <= cap
  /\ inflight' = MapDel(inflight, h)
  /\ usageStats' = IncrementReads(usageStats, inflight[h])
  /\ cache' = SetCachedData(cache, timers[h].cacheKey, h, CACHE_DURATION, now)
  /\ out' = [op |-> "snapshot", key |-> timers[h].key, id |-> h, cb |-> TRUE, wr |-> TRUE]
  /\ UNCHANGED <<chat, typing, feeds, store, now, debounceTimers, activeListeners, timers,
                 pendingTimers, handles,
                 pendingLoads>>

\* the remote store ends a subscription with an error. onSnapshot is called
\* with a snapshot callback only, so the SDK logs the error and stops the
\* listener: no code of the service or of the hook runs
ListenerError(h) ==
  /\ h \in DOMAIN handles
  /\ handles[h].active
  /\ handles' = Cancelled(handles, h)
  /\ out' = [op |-> "listenerError", key |-> timers[h].key, id |-> h, cb |-> FALSE]
  /\ UNCHANGED <<chat, typing, feeds, store, now, cache, debounceTimers, activeListeners,
                 usageStats, timers, pendingTimers, inflight, pendingLoads>>

(* ---------------- pagination ---------------- *)
\* loadMoreMessages up to "await getDocs(q)"
LoadMoreCall(c) ==
  /\ pendingLoads < MaxLoads
  /\ pendingLoads' = pendingLoads + 1
  /\ out' = [op |-> "getDocs", key |-> MsgListenerKey(c), rd |-> TRUE]
  /\ UNCHANGED <<chat, typing, feeds, store, now, cache, debounceTimers, activeListeners,
                 usageStats, timers,
                 pendingTimers, handles, inflight>>

\* loadMoreMessages after the response: incrementReads(snapshot.size)
LoadMoreResolve(n, cap) ==
  /\ pendingLoads > 0
  /\ n <= LOAD_MORE_LIMIT
  /\ usageStats.reads + n <= cap
  /\ pendingLoads' = pendingLoads - 1
  /\ usageStats' = IncrementReads(usageStats, n)
  /\ out' = [op |-> "loaded"]
  /\ UNCHANGED <<chat, typing, feeds, store, now, cache, debounceTimers, activeListeners, timers,
                 pendingTimers,
                 handles, inflight>>

(* ---------------- time ---------------- *)
\* the instants around which a cache entry or the usage window changes
NextInstants ==
  UNION {{cache[k].expiresAt - 1, cache[k].expiresAt, cache[k].expiresAt + 1} :
           k \in DOMAIN cache}
    \cup {usageStats.lastReset + RESET_HOURS * MS_PER_HOUR - 1,
          usageStats.lastReset + RESET_HOURS * MS_PER_HOUR,
          usageStats.lastReset + RESET_HOURS * MS_PER_HOUR + 1}

Tick(limit) ==
  /\ \E t \in NextInstants : t > now /\ t <= limit /\ now' = t
  /\ out' = [op |-> "tick"]
  /\ UNCHANGED <<chat, typing, feeds, store, cache, debounceTimers, activeListeners, usageStats,
                 timers, pendingTimers,
                 handles, inflight, pendingLoads>>

(* ---------------- sending ---------------- *)
Contents == {<<>>, <<" ">>, <<"h">>, <<" ", "h", " ">>}
SenderTypes == {"operator", "customer"}

\* the white space String.prototype.trim removes, as far as the inputs have it
IsWhitespace(ch) == ch \in {" ", "\t", "\n"}

\* String.prototype.trim
RECURSIVE TrimStart(_)
TrimStart(str) ==
  IF Len(str) > 0 /\ IsWhitespace(Head(str)) THEN TrimStart(Tail(str)) ELSE str
RECURSIVE TrimEnd(_)
TrimEnd(str) ==
  IF Len(str) > 0 /\ IsWhitespace(str[Len(str)])
  THEN TrimEnd(SubSeq(str, 1, Len(str) - 1)) ELSE str
Trim(str) == TrimEnd(TrimStart(str))

\* OptimizedChatService.sendMessage up to "await batch.commit()": one batch
\* holding the message and the conversation update
SubmitBatch(c, senderType, content) ==
  /\ pendingBatches' = Append(pendingBatches,
                              [conv |-> c, senderType |-> senderType, content |-> content])
  /\ UNCHANGED <<chat, typing, feeds, now, cache, debounceTimers, activeListeners, usageStats,
                 timers,
                 pendingTimers, handles, inflight, pendingLoads, storeMsgs, storeConv>>

\* a direct call of the service's sendMessage
SendMessage(c, senderType, content) ==
  /\ Len(storeMsgs) + Len(pendingBatches) < MaxSends
  /\ SubmitBatch(c, senderType, content)
  /\ out' = [op |-> "sendMessage", via |-> "service", conv |-> c, user |-> TRUE,
             senderType |-> senderType, content |-> content, submitted |-> TRUE]

\* mutant: the hook also consults the read circuit breaker before sending
HookSendAcceptsUnderLimit(user, content) ==
  user /\ Trim(content) # <<>> /\ CheckRateLimit(usageStats, now)

\* variant: the guard tests the content as typed, without trim
HookSendAcceptsUntrimmed(user, content) == user /\ content # <<>>

\* the hook's guard "if (!currentUser || !content.trim()) return"
HookSendAccepts(user, content) == user /\ Trim(content) # <<>>

\* the hook's sendMessage: the guard, then the service call as the operator
HookSendMessage(c, content, user) ==
  /\ Len(storeMsgs) + Len(pendingBatches) < MaxSends
  /\ IF HookSendAccepts(user, content)
     THEN SubmitBatch(c, "operator", Trim(content))
     ELSE UNCHANGED <<chat, typing, feeds, now, cache, debounceTimers, activeListeners,
                      usageStats, timers,
                      pendingTimers, handles, inflight, pendingLoads, store>>
  /\ out' = [op |-> "sendMessage", via |-> "hook", conv |-> c, user |-> user,
             senderType |-> "operator", content |-> content,
             submitted |-> HookSendAccepts(user, content)]

RemoveAt(q, i) == SubSeq(q, 1, i - 1) \o SubSeq(q, i + 1, Len(q))

\* variant: an operator message leaves the count as it is
UnreadCountAfterNoReset(old, senderType) == IF senderType = "customer" THEN old + 1 ELSE old

\* "unreadCount: senderType === 'customer' ? increment(1) : 0"
UnreadCountAfter(old, senderType) == IF senderType = "customer" THEN old + 1 ELSE 0

\* the commit succeeds: the store applies both writes of the batch at once, then
\* incrementWrites(2) and the cache entry of the default limit is deleted
BatchCommitOk(i) ==
  /\ i \in 1..Len(pendingBatches)
  /\ LET b == pendingBatches[i] IN
       /\ storeMsgs' = Append(storeMsgs, b)
       /\ storeConv' = [storeConv EXCEPT ![b.conv] =
            [unreadCount |-> UnreadCountAfter(@.unreadCount, b.senderType),
             lastMessageAt |-> Len(storeMsgs) + 1]]
       /\ cache' = MapDel(cache, MsgCacheKey(b.conv, DEFAULT_MESSAGE_LIMIT))
       /\ out' = [op |-> "sent", conv |-> b.conv]
  /\ pendingBatches' = RemoveAt(pendingBatches, i)
  /\ usageStats' = IncrementWrites(usageStats, 2)
  /\ UNCHANGED <<chat, typing, feeds, now, debounceTimers, activeListeners, timers,
                 pendingTimers, handles,
                 inflight, pendingLoads>>

\* variant: the message is written on its own, outside the batch, and stays
\* when the conversation update is rejected
BatchCommitFailKeepsMessage(i) ==
  /\ i \in 1..Len(pendingBatches)
  /\ storeMsgs' = Append(storeMsgs, pendingBatches[i])
  /\ pendingBatches' = RemoveAt(pendingBatches, i)
  /\ out' = [op |-> "sendFailed", conv |-> pendingBatches[i].conv, rejected |-> TRUE]
  /\ UNCHANGED <<chat, typing, feeds, now, cache, debounceTimers, activeListeners, usageStats,
                 timers,
                 pendingTimers, handles, inflight, pendingLoads, storeConv>>

\* variant: the bookkeeping runs in a finally block, also after a rejected commit
BatchCommitFailCounted(i) ==
  /\ i \in 1..Len(pendingBatches)
  /\ pendingBatches' = RemoveAt(pendingBatches, i)
  /\ usageStats' = IncrementWrites(usageStats, 2)
  /\ cache' = MapDel(cache, MsgCacheKey(pendingBatches[i].conv, DEFAULT_MESSAGE_LIMIT))
  /\ out' = [op |-> "sendFailed", conv |-> pendingBatches[i].conv, rejected |-> TRUE]
  /\ UNCHANGED <<chat, typing, feeds, now, debounceTimers, activeListeners, timers,
                 pendingTimers, handles, inflight, pendingLoads, storeMsgs, storeConv>>

\* the commit is rejected: "await batch.commit()" throws, the statements after
\* it do not run, and the rejection reaches the caller
BatchCommitFail(i) ==
  /\ i \in 1..Len(pendingBatches)
  /\ pendingBatches' = RemoveAt(pendingBatches, i)
  /\ out' = [op |-> "sendFailed", conv |-> pendingBatches[i].conv, rejected |-> TRUE]
  /\ UNCHANGED <<chat, typing, feeds, now, cache, debounceTimers, activeListeners, usageStats,
                 timers,
                 pendingTimers, handles, inflight, pendingLoads, storeMsgs, storeConv>>

(* ---------------- the hook's message lists ---------------- *)
\* the documents of conversation c among the first n of the messages
\* collection, oldest first; a document's id and its server timestamp are its
\* position in the collection
RECURSIVE DocsUpTo(_, _)
DocsUpTo(c, n) ==
  IF n = 0 THEN <<>>
  ELSE IF storeMsgs[n].conv = c THEN Append(DocsUpTo(c, n - 1), n)
  ELSE DocsUpTo(c, n - 1)

\* Array.prototype.reverse
Reverse(arr) == [i \in 1..Len(arr) |-> arr[Len(arr) + 1 - i]]

\* where('conversationId', '==', c), orderBy('timestamp', 'desc')
OrderedDesc(c) == Reverse(DocsUpTo(c, Len(storeMsgs)))

\* limit(limitCount)
LimitTo(docs, limitCount) ==
  SubSeq(docs, 1, IF Len(docs) < limitCount THEN Len(docs) ELSE limitCount)

\* where('timestamp', '>=', twelveHoursAgo): the documents not older than the
\* one at position since
NotOlderThan(docs, since) == SelectSeq(docs, LAMBDA d : d >= since)

\* startAfter(lastDoc) on the descending order, when a cursor is given
StartAfter(docs, lastDoc) ==
  IF lastDoc = 0 THEN docs ELSE SelectSeq(docs, LAMBDA d : d < lastDoc)

\* snapshot.docs.map(doc => ({id: doc.id, ..., timestamp: ...}))
ChatMessagesOf(docs) == [i \in 1..Len(docs) |-> [id |-> docs[i], timestamp |-> docs[i]]]

\* the onSnapshot callback of subscribeToMessages with the hook's callback:
\* incrementReads, the documents reversed to oldest first, cached, and the
\* conversation's list replaced by them. since is where the 12-hour window
\* of the query begins
MessagesSnapshot(h, since) ==
  /\ h \in DOMAIN handles
  /\ handles[h].active
  /\ timers[h].key[1] = "msg_listener"
  /\ since \in 1..(Len(storeMsgs) + 1)
  /\ LET c == timers[h].key[2]
         docs == LimitTo(NotOlderThan(OrderedDesc(c), since), timers[h].cacheKey[3])
         messages == Reverse(ChatMessagesOf(docs))
     IN /\ usageStats.reads + Len(docs) <= MaxPagingReads
        /\ usageStats' = IncrementReads(usageStats, Len(docs))
        /\ cache' = SetCachedData(cache, timers[h].cacheKey, messages, CACHE_DURATION, now)
        /\ chatMessages' = [chatMessages EXCEPT ![c] = messages]
        /\ out' = [op |-> "snapshot", key |-> timers[h].key, id |-> h, cb |-> TRUE,
                   wr |-> TRUE]
  /\ UNCHANGED <<lastMessageDocs, typing, feeds, store, now, debounceTimers, activeListeners,
                 timers, pendingTimers, handles, inflight, pendingLoads>>

\* the hook's loadMoreMessages with the service's: the query after the stored
\* cursor, incrementReads, the page reversed to oldest first and spread after
\* the conversation's list, the cursor moved to the last document of the page
HookLoadMoreMessages(c) ==
  /\ LET lastDoc == lastMessageDocs[c]
         docs == LimitTo(StartAfter(OrderedDesc(c), lastDoc), LOAD_MORE_LIMIT)
         messages == Reverse(ChatMessagesOf(docs))
     IN /\ usageStats.reads + Len(docs) <= MaxPagingReads
        /\ usageStats' = IncrementReads(usageStats, Len(docs))
        /\ chatMessages' = IF Len(messages) > 0
                           THEN [chatMessages EXCEPT ![c] = @ \o messages]
                           ELSE chatMessages
        /\ lastMessageDocs' = IF Len(messages) > 0
                              THEN [lastMessageDocs EXCEPT ![c] = docs[Len(docs)]]
                              ELSE lastMessageDocs
        /\ out' = [op |-> "loadMore", conv |-> c, cursor |-> lastDoc, size |-> Len(docs)]
  /\ UNCHANGED <<typing, feeds, store, now, cache, debounceTimers, activeListeners, timers,
                 pendingTimers, handles, inflight, pendingLoads>>

\* the hook's messages effect for the conversation that becomes active: one
\* subscription of the 100 most recent messages per mount
HookOpenConversation(c) ==
  /\ Len(timers) = 0
  /\ SubscribeToMessages(c, HOOK_MESSAGE_LIMIT)

(* ---------------- typing ---------------- *)
TypingUsers == {"u1"}
TypingConversations == {"c1", "c2"}
\* `typing_${userId}_${conversationId}`
TypingKey(userId, conversationId) == <<"typing", userId, conversationId>>
TypingKeys == {TypingKey(u, c) : u \in TypingUsers, c \in TypingConversations}

\* setTypingStatus: the pair's registered timer is cleared and a new one is
\* scheduled and registered (the 500 ms delay is abstracted like the settle
\* delay: the timer may expire at any later step)
SetTypingStatus(userId, conversationId, isTyping) ==
  /\ Len(timers) < MaxTimers
  /\ LET key == TypingKey(userId, conversationId)
         id == Len(timers) + 1
     IN /\ timers' = Append(timers, [key |-> key, isTyping |-> isTyping,
                                      over |-> Registered(debounceTimers, key)])
        /\ pendingTimers' = ClearExistingTimer(key) \cup {id}
        /\ debounceTimers' = MapSet(debounceTimers, key, id)
        /\ out' = [op |-> "setTypingStatus", key |-> key, id |-> id,
                   existingTimer |-> Registered(debounceTimers, key)]
  /\ UNCHANGED <<chat, typing, feeds, store, now, cache, activeListeners, usageStats, handles,
                 inflight, pendingLoads>>

\* the timer's callback up to "await updateDoc(...)": the write is sent
TypingTimerFire(id) ==
  /\ id \in pendingTimers
  /\ timers[id].key[1] = "typing"
  /\ pendingTimers' = pendingTimers \ {id}
  /\ inflightTyping' = inflightTyping \cup {id}
  /\ out' = [op |-> "typingFired", key |-> timers[id].key, id |-> id]
  /\ UNCHANGED <<chat, typingLog, feeds, store, now, cache, debounceTimers, activeListeners,
                 usageStats, timers, handles, inflight, pendingLoads>>

\* the callback after the await: incrementWrites(1), debounceTimers.delete(key)
TypingWriteDone(id) ==
  /\ id \in inflightTyping
  /\ inflightTyping' = inflightTyping \ {id}
  /\ typingLog' = Append(typingLog, [key |-> timers[id].key, isTyping |-> timers[id].isTyping,
                                     id |-> id])
  /\ usageStats' = IncrementWrites(usageStats, 1)
  /\ debounceTimers' = MapDel(debounceTimers, timers[id].key)
  /\ out' = [op |-> "typingWritten", key |-> timers[id].key, id |-> id,
             removed |-> Registered(debounceTimers, timers[id].key)]
  /\ UNCHANGED <<chat, feeds, store, now, cache, activeListeners, timers, pendingTimers, handles,
                 inflight, pendingLoads>>

\* updateDoc rejects: the callback ends at the await, nothing after it runs
TypingWriteFail(id) ==
  /\ id \in inflightTyping
  /\ inflightTyping' = inflightTyping \ {id}
  /\ out' = [op |-> "typingFailed", key |-> timers[id].key, id |-> id]
  /\ UNCHANGED <<chat, typingLog, feeds, store, now, cache, debounceTimers, activeListeners,
                 usageStats, timers, pendingTimers, handles, inflight, pendingLoads>>

(* ---------------- direct calls of the meter and of the cache ---------------- *)
\* incrementReads / incrementWrites as the callbacks above call them
RecordReads(n) ==
  /\ usageStats.reads + n <= MaxReads
  /\ usageStats' = IncrementReads(usageStats, n)
  /\ out' = [op |-> "incrementReads"]
  /\ UNCHANGED <<chat, typing, feeds, store, now, cache, debounceTimers, activeListeners, timers,
                 pendingTimers,
                 handles, inflight, pendingLoads>>

RecordWrites(n) ==
  /\ usageStats.writes + n <= MaxWrites
  /\ usageStats' = IncrementWrites(usageStats, n)
  /\ out' = [op |-> "incrementWrites"]
  /\ UNCHANGED <<chat, typing, feeds, store, now, cache, debounceTimers, activeListeners, timers,
                 pendingTimers,
                 handles, inflight, pendingLoads>>

GetUsageStatsCall ==
  /\ usageStats' = GetUsageStats(usageStats, now)
  /\ out' = [op |-> "getUsageStats", was |-> usageStats,
             res |-> GetUsageStats(usageStats, now)]
  /\ UNCHANGED <<chat, typing, feeds, store, now, cache, debounceTimers, activeListeners, timers,
                 pendingTimers,
                 handles, inflight, pendingLoads>>

\* checkRateLimit: its result and whether it logged the approaching-limit warning
CheckRateLimitCall ==
  /\ usageStats' = GetUsageStats(usageStats, now)
  /\ out' = [op |-> "checkRateLimit", was |-> usageStats,
             res |-> CheckRateLimit(usageStats, now),
             warned |-> /\ CheckRateLimit(usageStats, now)
                        /\ NearLimit(GetUsageStats(usageStats, now))]
  /\ UNCHANGED <<chat, typing, feeds, store, now, cache, debounceTimers, activeListeners, timers,
                 pendingTimers,
                 handles, inflight, pendingLoads>>

CacheValues == {1, 2}
CacheDurations == {CACHE_DURATION, 2 * CACHE_DURATION}
CacheKeys == {MsgCacheKey(c, l) : c \in Conversations, l \in MessageLimits}

SetCachedDataCall(key, data, duration) ==
  /\ cache' = SetCachedData(cache, key, data, duration, now)
  /\ out' = [op |-> "setCachedData", key |-> key, data |-> data, duration |-> duration]
  /\ UNCHANGED <<chat, typing, feeds, store, now, debounceTimers, activeListeners, usageStats,
                 timers,
                 pendingTimers, handles, inflight, pendingLoads>>

GetCachedDataCall(key) ==
  /\ cache' = CacheAfterGet(cache, key, now)
  /\ out' = [op |-> "getCachedData", key |-> key, val |-> GetCachedData(cache, key, now)]
  /\ UNCHANGED <<chat, typing, feeds, store, now, debounceTimers, activeListeners, usageStats,
                 timers,
                 pendingTimers, handles, inflight, pendingLoads>>

(* ---------------- data sources: configuration and raw records ---------------- *)
WEBHOOK == "webhook"
FIREBASE == "firebase"
GOOGLE_SHEETS == "google_sheets"

\* defaultDataSourceConfig.enabled
defaultDataSourceConfig == <<FIREBASE>>

\* config.primary of the DataSourceConfig with the enabled list en: the default
\* and the four documented use cases declare the only enabled origin, and
\* firebase when several are enabled
Primary(en) == IF Len(en) = 1 THEN en[1] ELSE FIREBASE

\* enabled lists a DataSourceConfig can hold: the default, the four use cases the
\* configuration file documents, and one that declares the origins in another order
Configs ==
  {<<WEBHOOK>>, <<FIREBASE>>, <<GOOGLE_SHEETS>>, <<WEBHOOK, FIREBASE, GOOGLE_SHEETS>>,
   <<GOOGLE_SHEETS, FIREBASE, WEBHOOK>>}

\* config.enabled.includes(x)
Includes(list, x) == \E i \in 1..Len(list) : list[i] = x

\* Text values are sequences of characters. The value of a property a record
\* does not have is a sequence that is no text.
Undefined == <<"undefined">>

\* doc.f
F(doc, f) == IF f \in DOMAIN doc THEN doc[f] ELSE Undefined

\* JavaScript truthiness of a string-valued or missing property
Truthy(v) == v # Undefined /\ v # <<>>

\* a || b || ... || z : the first truthy operand, the last one when none is
RECURSIVE OrChain(_)
OrChain(vals) ==
  IF Len(vals) = 1 \/ Truthy(Head(vals)) THEN Head(vals) ELSE OrChain(Tail(vals))

\* the instant of the first of the time fields the record has, t when it has none
RECURSIVE FirstTime(_, _, _)
FirstTime(doc, fields, t) ==
  IF Len(fields) = 0 THEN t
  ELSE IF Head(fields) \in DOMAIN doc THEN doc[Head(fields)]
  ELSE FirstTime(doc, Tail(fields), t)

\* doc.id || `${prefix}-${Date.now()}-${index}`
IdOf(doc, prefix, t, index) ==
  IF "id" \in DOMAIN doc THEN doc.id ELSE <<prefix, t, index>>

\* variant: the comparator subtracts the other way round (oldest first)
SortByTimestampAsc(msgs) ==
  LET n == Len(msgs)
      before(j, i) == \/ msgs[j].timestamp < msgs[i].timestamp
                      \/ msgs[j].timestamp = msgs[i].timestamp /\ j < i
      rank == [i \in 1..n |-> Cardinality({j \in 1..n : before(j, i)})]
  IN [p \in 1..n |-> msgs[CHOOSE i \in 1..n : rank[i] = p - 1]]

\* messages.sort((a, b) => b.timestamp - a.timestamp): stable, newest first
SortByTimestampDesc(msgs) ==
  LET n == Len(msgs)
      before(j, i) == \/ msgs[j].timestamp > msgs[i].timestamp
                      \/ msgs[j].timestamp = msgs[i].timestamp /\ j < i
      rank == [i \in 1..n |-> Cardinality({j \in 1..n : before(j, i)})]
  IN [p \in 1..n |-> msgs[CHOOSE i \in 1..n : rank[i] = p - 1]]

\* array.filter(keep), for keep given as the set of indexes kept
RECURSIVE FilterIdx(_, _, _)
FilterIdx(arr, keep, i) ==
  IF i > Len(arr) THEN <<>>
  ELSE (IF i \in keep THEN <<arr[i]>> ELSE <<>>) \o FilterIdx(arr, keep, i + 1)

(* ---------------- useDataSources ---------------- *)
\* isDuplicateMessage
DataSources_isDuplicateMessage(newMsg, existingMessages) ==
  \E i \in 1..Len(existingMessages) :
    /\ existingMessages[i].phone_number = F(newMsg, "phone_number")
    /\ existingMessages[i].message = OrChain(<<F(newMsg, "message"), F(newMsg, "Message")>>)
    /\ existingMessages[i].product = OrChain(<<F(newMsg, "product"), F(newMsg, "Product")>>)

\* the UnifiedMessage fetchWebhookData makes of a webhook record
DataSources_webhookMessage(msg, index, t) ==
  [id |-> IdOf(msg, "webhook", t, index),
   phone_number |-> OrChain(<<F(msg, "phone_number"), <<>>>>),
   name |-> OrChain(<<F(msg, "name"), <<>>>>),
   product |-> OrChain(<<F(msg, "product"), F(msg, "Product"), <<>>>>),
   category |-> OrChain(<<F(msg, "category"), F(msg, "Category"), <<>>>>),
   intent |-> OrChain(<<F(msg, "intent"), F(msg, "Intent"), <<>>>>),
   message |-> OrChain(<<F(msg, "message"), F(msg, "Message"), <<>>>>),
   timestamp |-> FirstTime(msg, <<"timestamp">>, t),
   source |-> WEBHOOK]

\* getFirebaseMessages
DataSources_getFirebaseMessages(en, fbData, t) ==
  IF ~Includes(en, FIREBASE) THEN <<>>
  ELSE [index \in 1..Len(fbData) |->
         LET doc == fbData[index] IN
         [id |-> IdOf(doc, "firebase", t, index),
          phone_number |-> OrChain(<<F(doc, "phone_number"), F(doc, "Phone_number"), <<>>>>),
          name |-> OrChain(<<F(doc, "name"), F(doc, "Name"), F(doc, "customer_name"),
                             F(doc, "Customer_name"), <<"U", "n", "k", "n", "o", "w", "n">>>>),
          product |-> OrChain(<<F(doc, "product"), F(doc, "Product"), <<>>>>),
          category |-> OrChain(<<F(doc, "category"), F(doc, "Category"), <<"e", "n", "q", "u", "i", "r", "y">>>>),
          intent |-> OrChain(<<F(doc, "intent"), F(doc, "Intent"), <<"g", "e", "n", "e", "r", "a", "l">>>>),
          message |-> OrChain(<<F(doc, "message"), F(doc, "Message"), F(doc, "message_body"),
                                F(doc, "Message_body"), <<>>>>),
          timestamp |-> FirstTime(doc, <<"Time", "time", "timestamp", "createdAt",
                                         "updatedAt">>, t),
          source |-> FIREBASE]]

\* getSheetsMessages
DataSources_getSheetsMessages(en, shData, t) ==
  IF ~Includes(en, GOOGLE_SHEETS) THEN <<>>
  ELSE [index \in 1..Len(shData) |->
         LET row == shData[index] IN
         [id |-> IdOf(row, "sheets", t, index),
          phone_number |-> OrChain(<<F(row, "phone_number"), <<>>>>),
          name |-> OrChain(<<F(row, "name"), <<>>>>),
          product |-> OrChain(<<F(row, "product"), F(row, "Product"), <<>>>>),
          category |-> OrChain(<<F(row, "category"), F(row, "Category"), <<>>>>),
          intent |-> OrChain(<<F(row, "intent"), F(row, "Intent"), <<>>>>),
          message |-> OrChain(<<F(row, "message"), F(row, "Message"), <<>>>>),
          timestamp |-> FirstTime(row, <<"timestamp">>, t),
          source |-> GOOGLE_SHEETS]]

\* getAllMessages: webhook, Firebase, sheets, in that order, then sorted
DataSources_getAllMessages(en, whMessages, fbData, shData, t) ==
  SortByTimestampDesc(
    (IF Includes(en, WEBHOOK) THEN whMessages ELSE <<>>)
      \o (IF Includes(en, FIREBASE) THEN DataSources_getFirebaseMessages(en, fbData, t)
          ELSE <<>>)
      \o (IF Includes(en, GOOGLE_SHEETS) THEN DataSources_getSheetsMessages(en, shData, t)
          ELSE <<>>))

\* the aggregate the hook returns in the current state
DataSources_messages ==
  DataSources_getAllMessages(enabled, webhookMessages, firebaseData, sheetsData, now)

\* fetchWebhookData is memoized on [config, isDuplicateMessage], which never
\* change, so the getAllMessages it calls is the one of the first render, over
\* the initial useState values
DataSources_allExistingMessages ==
  DataSources_getAllMessages(enabled, <<>>, <<>>, <<>>, now)

\* fetchWebhookData after the response: the records that are no duplicates are
\* converted and appended
DataSources_fetchWebhookData(data) ==
  /\ Includes(enabled, WEBHOOK)
  /\ LET keep == {i \in 1..Len(data) :
                    ~DataSources_isDuplicateMessage(data[i], DataSources_allExistingMessages)}
         newMessages == FilterIdx(data, keep, 1)
         processed == [index \in 1..Len(newMessages) |->
                         DataSources_webhookMessage(newMessages[index], index - 1, now)]
     IN /\ Len(webhookMessages) + Len(processed) <= MaxWebhookMessages
        /\ webhookMessages' = webhookMessages \o processed
  /\ out' = [op |-> "fetchWebhookData"]
  /\ UNCHANGED <<chat, typing, service, enabled, firebaseData, sheetsData, isRateLimited>>

\* useFirestoreCollection (limit 10): the fetch resolves and setData(documents)
DataSources_firebaseFetched(docs) ==
  /\ Includes(enabled, FIREBASE)
  /\ Len(docs) <= DATA_SOURCES_FIREBASE_LIMIT
  /\ firebaseData' = docs
  /\ out' = [op |-> "firebaseFetched"]
  /\ UNCHANGED <<chat, typing, service, enabled, webhookMessages, sheetsData, isRateLimited>>

\* row[k], undefined past the end of the row
Cell(row, k) == IF k <= Len(row) THEN row[k] ELSE Undefined

\* the GoogleSheetsMessage useGoogleSheets makes of a row of the sheet
SheetsMessageOf(row, index, t) ==
  [id |-> <<"sheets", t, index>>,
   phone_number |-> OrChain(<<Cell(row, 1), <<>>>>),
   name |-> OrChain(<<Cell(row, 2), <<>>>>),
   Product |-> OrChain(<<Cell(row, 3), <<>>>>),
   Category |-> OrChain(<<Cell(row, 4), <<>>>>),
   Intent |-> OrChain(<<Cell(row, 5), <<>>>>),
   Message |-> OrChain(<<Cell(row, 6), <<>>>>),
   timestamp |-> IF Len(row) >= 7 THEN row[7] ELSE t]

\* useGoogleSheets: fetchSheetsData resolves; the header row is skipped
SheetsFetched(rows) ==
  /\ Includes(enabled, GOOGLE_SHEETS)
  /\ sheetsData' = [index \in 1..(Len(rows) - 1) |-> SheetsMessageOf(rows[index + 1], index - 1, now)]
  /\ out' = [op |-> "sheetsFetched"]
  /\ UNCHANGED <<chat, typing, service, enabled, webhookMessages, firebaseData, isRateLimited>>

(* ---------------- useOptimizedDataSources ---------------- *)
\* array.slice(0, n)
Slice(arr, n) == SubSeq(arr, 1, IF Len(arr) < n THEN Len(arr) ELSE n)

UpperCaseLetters ==
  <<"A", "B", "C", "D", "E", "F", "G", "H", "I", "J", "K", "L", "M",
    "N", "O", "P", "Q", "R", "S", "T", "U", "V", "W", "X", "Y", "Z">>
LowerCaseLetters ==
  <<"a", "b", "c", "d", "e", "f", "g", "h", "i", "j", "k", "l", "m",
    "n", "o", "p", "q", "r", "s", "t", "u", "v", "w", "x", "y", "z">>

\* String.prototype.toLowerCase, character by character
LowerChar(ch) ==
  IF \E k \in 1..26 : UpperCaseLetters[k] = ch
  THEN LowerCaseLetters[CHOOSE k \in 1..26 : UpperCaseLetters[k] = ch]
  ELSE ch
ToLowerCase(str) == [i \in 1..Len(str) |-> LowerChar(str[i])]

\* getDocs(query(collectionRef, orderBy('Time', 'desc'), limit(100))) over the
\* documents of the remote collection: the documents that have the field Time,
\* latest Time first, the first 100 of them
FirestoreQuery(coll) ==
  LET timed == {d \in coll : "Time" \in DOMAIN d}
      rank == [d \in timed |-> Cardinality({e \in timed : e.Time > d.Time})]
      ordered == [p \in 1..Cardinality(timed) |-> CHOOSE d \in timed : rank[d] = p - 1]
  IN Slice(ordered, OPTIMIZED_FIREBASE_LIMIT)

\* the fields of the unified message getFirebaseMessages resolves by fallback
Optimized_phone_number(doc) ==
  OrChain(<<F(doc, "Phone Number"), F(doc, "phone_number"), F(doc, "Phone_number"),
            <<"N", "/", "A">>>>)
\* variant: no default for a record without a name
Optimized_nameNoDefault(doc) ==
  OrChain(<<F(doc, "Profile Name"), F(doc, "name"), F(doc, "Name"),
            F(doc, "customer_name"), F(doc, "Customer_name"), <<>> >>)
Optimized_name(doc) ==
  OrChain(<<F(doc, "Profile Name"), F(doc, "name"), F(doc, "Name"),
            F(doc, "customer_name"), F(doc, "Customer_name"),
            <<"U", "n", "k", "n", "o", "w", "n", " ", "C", "u", "s", "t", "o", "m", "e", "r">>>>)
Optimized_product(doc) ==
  OrChain(<<F(doc, "product"), F(doc, "Product"),
            <<"N", "o", " ", "p", "r", "o", "d", "u", "c", "t", " ", "s", "p", "e", "c", "i", "f", "i", "e", "d">>>>)
Optimized_category(doc) ==
  OrChain(<<F(doc, "category"), F(doc, "Category"), <<"E", "n", "q", "u", "i", "r", "y">>>>)
Optimized_intent(doc) ==
  OrChain(<<F(doc, "intent"), F(doc, "Intent"), <<"G", "e", "n", "e", "r", "a", "l">>>>)
Optimized_message(doc) ==
  OrChain(<<F(doc, "Message"), F(doc, "message"), F(doc, "Message_body"),
            F(doc, "message_body"),
            <<"N", "o", " ", "m", "e", "s", "s", "a", "g", "e", " ", "c", "o", "n", "t", "e", "n", "t">>>>)
\* variant: only the lowercase field is read
Optimized_senderLowercaseOnly(doc) ==
  LET senderValue == OrChain(<<F(doc, "sender"), <<"C", "u", "s", "t", "o", "m", "e", "r">>>>)
  IN IF ToLowerCase(senderValue) = <<"o", "p", "e", "r", "a", "t", "o", "r">> THEN "operator" ELSE "customer"
Optimized_sender(doc) ==
  LET senderValue == OrChain(<<F(doc, "Sender"), F(doc, "sender"), <<"C", "u", "s", "t", "o", "m", "e", "r">>>>)
  IN IF ToLowerCase(senderValue) = <<"o", "p", "e", "r", "a", "t", "o", "r">> THEN "operator" ELSE "customer"
Optimized_type(doc) ==
  OrChain(<<F(doc, "Type"), F(doc, "type"), <<"t", "e", "x", "t">>>>)
Optimized_timestamp(doc, t) ==
  FirstTime(doc, <<"ReceivedAt", "Time", "time", "timestamp", "createdAt", "updatedAt">>, t)

\* the callback getFirebaseMessages maps over the documents
Optimized_firebaseMessage(doc, index, t) ==
  [id |-> IdOf(doc, "firebase", t, index),
   phone_number |-> Optimized_phone_number(doc),
   name |-> Optimized_name(doc),
   product |-> Optimized_product(doc),
   category |-> Optimized_category(doc),
   intent |-> Optimized_intent(doc),
   message |-> Optimized_message(doc),
   timestamp |-> Optimized_timestamp(doc, t),
   source |-> FIREBASE,
   sender |-> Optimized_sender(doc),
   direction |-> IF Optimized_sender(doc) = "operator" THEN "outbound" ELSE "inbound",
   type |-> Optimized_type(doc)]

\* getFirebaseMessages
Optimized_getFirebaseMessages(en, fbData, limited, t) ==
  IF ~Includes(en, FIREBASE) \/ limited THEN <<>>
  ELSE LET docs == Slice(fbData, FIREBASE_SLICE)
       IN [i \in 1..Len(docs) |-> Optimized_firebaseMessage(docs[i], i - 1, t)]

\* the callback getSheetsMessages maps over the rows
Optimized_sheetsMessage(row, index, t) ==
  [id |-> IdOf(row, "sheets", t, index),
   phone_number |-> OrChain(<<F(row, "phone_number"), <<>> >>),
   name |-> OrChain(<<F(row, "name"), <<>> >>),
   product |-> OrChain(<<F(row, "product"), F(row, "Product"), <<>> >>),
   category |-> OrChain(<<F(row, "category"), F(row, "Category"), <<>> >>),
   intent |-> OrChain(<<F(row, "intent"), F(row, "Intent"), <<>> >>),
   message |-> OrChain(<<F(row, "message"), F(row, "Message"), <<>> >>),
   timestamp |-> FirstTime(row, <<"timestamp">>, t),
   source |-> GOOGLE_SHEETS,
   sender |-> "customer",
   direction |-> "inbound",
   type |-> <<"t", "e", "x", "t">>]

\* getSheetsMessages
Optimized_getSheetsMessages(en, shData, t) ==
  IF ~Includes(en, GOOGLE_SHEETS) THEN <<>>
  ELSE LET rows == Slice(shData, SHEETS_SLICE)
       IN [i \in 1..Len(rows) |-> Optimized_sheetsMessage(rows[i], i - 1, t)]

\* getAllMessages: the origins' messages pushed in a fixed order, sorted, cut
Optimized_getAllMessages(en, whMessages, fbData, shData, limited, t) ==
  LET messages ==
        (IF Includes(en, WEBHOOK) THEN Slice(whMessages, WEBHOOK_SLICE) ELSE <<>>)
        \o (IF Includes(en, FIREBASE) /\ ~limited
            THEN Optimized_getFirebaseMessages(en, fbData, limited, t) ELSE <<>>)
        \o (IF Includes(en, GOOGLE_SHEETS)
            THEN Optimized_getSheetsMessages(en, shData, t) ELSE <<>>)
  IN Slice(SortByTimestampDesc(messages), AGGREGATE_SLICE)

\* the hook's "messages" of the current render
Optimized_messages ==
  Optimized_getAllMessages(enabled, webhookMessages, firebaseData, sheetsData,
                           isRateLimited, now)

\* the effect of useFirestoreCollection while enabled, and refetch: the
\* snapshot of the query replaces the data
Optimized_firebaseFetched(coll) ==
  /\ Includes(enabled, FIREBASE) /\ ~isRateLimited
  /\ firebaseData' = FirestoreQuery(coll)
  /\ out' = [op |-> "firebaseFetched", collection |-> coll]
  /\ UNCHANGED <<chat, typing, store, now, cache, debounceTimers, activeListeners, usageStats,
                 timers,
                 pendingTimers, handles, inflight, pendingLoads, enabled, webhookMessages,
                 sheetsData, isRateLimited>>

\* the effect of useFirestoreCollection while disabled: setData([])
Optimized_firebaseDisabled ==
  /\ ~(Includes(enabled, FIREBASE) /\ ~isRateLimited)
  /\ firebaseData # <<>>
  /\ firebaseData' = <<>>
  /\ out' = [op |-> "firebaseDisabled"]
  /\ UNCHANGED <<chat, typing, store, now, cache, debounceTimers, activeListeners, usageStats,
                 timers,
                 pendingTimers, handles, inflight, pendingLoads, enabled, webhookMessages,
                 sheetsData, isRateLimited>>

\* the hook's checkRateLimit, as its interval and refreshAllSources call it
Optimized_checkRateLimit ==
  /\ usageStats' = GetUsageStats(usageStats, now)
  /\ isRateLimited' = ~CheckRateLimit(usageStats, now)
  /\ out' = [op |-> "hookCheckRateLimit", res |-> CheckRateLimit(usageStats, now)]
  /\ UNCHANGED <<chat, typing, store, now, cache, debounceTimers, activeListeners, timers,
                 pendingTimers,
                 handles, inflight, pendingLoads, enabled, webhookMessages, firebaseData,
                 sheetsData>>

(* ---------------- ChatDashboard ---------------- *)
\* the cases of the switch in mapWebhookCategory, in their order
SynonymTable ==
  <<
    [spelling |-> <<"n", "e", "w", " ", "o", "r", "d", "e", "r">>,
     category |-> "new-orders"],
    [spelling |-> <<"n", "e", "w", "o", "r", "d", "e", "r">>,
     category |-> "new-orders"],
    [spelling |-> <<"p", "u", "r", "c", "h", "a", "s", "e", " ", "r", "e", "q", "u", "e", "s", "t">>,
     category |-> "new-orders"],
    [spelling |-> <<"p", "u", "r", "c", "h", "a", "s", "e", "r", "e", "q", "u", "e", "s", "t">>,
     category |-> "new-orders"],
    [spelling |-> <<"o", "r", "d", "e", "r">>,
     category |-> "new-orders"],
    [spelling |-> <<"e", "n", "q", "u", "i", "r", "y">>,
     category |-> "enquiries"],
    [spelling |-> <<"i", "n", "q", "u", "i", "r", "y">>,
     category |-> "enquiries"],
    [spelling |-> <<"q", "u", "e", "s", "t", "i", "o", "n">>,
     category |-> "enquiries"],
    [spelling |-> <<"g", "e", "n", "e", "r", "a", "l">>,
     category |-> "enquiries"],
    [spelling |-> <<"f", "o", "l", "l", "o", "w", " ", "u", "p">>,
     category |-> "follow-ups"],
    [spelling |-> <<"f", "o", "l", "l", "o", "w", "u", "p">>,
     category |-> "follow-ups"],
    [spelling |-> <<"f", "o", "l", "l", "o", "w", "-", "u", "p">>,
     category |-> "follow-ups"],
    [spelling |-> <<"c", "o", "m", "p", "l", "a", "i", "n", "t">>,
     category |-> "complaints"],
    [spelling |-> <<"c", "o", "m", "p", "l", "a", "i", "n", "t", "s">>,
     category |-> "complaints"],
    [spelling |-> <<"i", "s", "s", "u", "e">>,
     category |-> "complaints"],
    [spelling |-> <<"r", "e", "t", "u", "r", "n">>,
     category |-> "returns"],
    [spelling |-> <<"r", "e", "t", "u", "r", "n", "s">>,
     category |-> "returns"],
    [spelling |-> <<"r", "e", "t", "u", "r", "n", " ", "r", "e", "q", "u", "e", "s", "t">>,
     category |-> "returns"],
    [spelling |-> <<"r", "e", "f", "u", "n", "d">>,
     category |-> "returns"]
  >>

\* variant: the category is compared as written, without toLowerCase
MapWebhookCategoryCaseSensitive(category) ==
  LET normalizedCategory == Trim(OrChain(<<category, <<>> >>))
      hits == {k \in 1..Len(SynonymTable) : SynonymTable[k].spelling = normalizedCategory}
  IN IF hits = {} THEN "enquiries"
     ELSE SynonymTable[CHOOSE k \in hits : \A j \in hits : k <= j].category

\* mapWebhookCategory
MapWebhookCategory(category) ==
  LET normalizedCategory == Trim(ToLowerCase(OrChain(<<category, <<>> >>)))
      hits == {k \in 1..Len(SynonymTable) : SynonymTable[k].spelling = normalizedCategory}
  IN IF hits = {} THEN "enquiries"
     ELSE SynonymTable[CHOOSE k \in hits : \A j \in hits : k <= j].category

\* convertToDisplayMessage
ConvertToDisplayMessage(msg, t) ==
  [id |-> msg.id,
   category |-> MapWebhookCategory(F(msg, "category")),
   message |-> OrChain(<<F(msg, "message"),
                         <<"N", "o", " ", "m", "e", "s", "s", "a", "g", "e", " ", "c", "o", "n", "t", "e", "n", "t">>>>),
   customer |-> OrChain(<<F(msg, "name"),
                          <<"U", "n", "k", "n", "o", "w", "n", " ", "C", "u", "s", "t", "o", "m", "e", "r">>>>),
   phone |-> OrChain(<<F(msg, "phone_number"), <<"N", "/", "A">>>>),
   product |-> OrChain(<<F(msg, "product"),
                         <<"N", "o", " ", "p", "r", "o", "d", "u", "c", "t", " ", "s", "p", "e", "c", "i", "f", "i", "e", "d">>>>),
   intent |-> OrChain(<<F(msg, "intent"), <<"G", "e", "n", "e", "r", "a", "l">>>>),
   timestamp |-> FirstTime(msg, <<"timestamp">>, t),
   source |-> msg.source]

\* allMessages = allSourceMessages.map(convertToDisplayMessage)
AllMessages ==
  [i \in 1..Len(Optimized_messages) |-> ConvertToDisplayMessage(Optimized_messages[i], now)]

\* a call of mapWebhookCategory
MapWebhookCategoryCall(category) ==
  /\ out' = [op |-> "mapWebhookCategory", category |-> category,
             res |-> MapWebhookCategory(category)]
  /\ UNCHANGED <<chat, typing, feeds, store, now, cache, debounceTimers, activeListeners,
                 usageStats, timers,
                 pendingTimers, handles, inflight, pendingLoads>>

(* ---------------- the service ---------------- *)
ServiceInit ==
  /\ now = 0
  /\ cache = EmptyMap
  /\ debounceTimers = EmptyMap
  /\ activeListeners = EmptyMap
  /\ usageStats = [reads |-> 0, writes |-> 0, lastReset |-> 0]
  /\ timers = <<>>
  /\ pendingTimers = {}
  /\ handles = EmptyMap
  /\ inflight = EmptyMap
  /\ pendingLoads = 0
  /\ storeMsgs = <<>>
  /\ storeConv = [c \in Conversations |-> [unreadCount |-> 0, lastMessageAt |-> 0]]
  /\ pendingBatches = <<>>
  /\ out = Quiet

\* the data-source hooks before their first fetch, the chat hook before its
\* first snapshot, no typing update under way
HookInit ==
  /\ webhookMessages = <<>>
  /\ firebaseData = <<>>
  /\ sheetsData = <<>>
  /\ isRateLimited = FALSE
  /\ chatMessages = [c \in Conversations |-> <<>>]
  /\ lastMessageDocs = [c \in Conversations |-> 0]
  /\ inflightTyping = {}
  /\ typingLog = <<>>

Init == ServiceInit /\ HookInit /\ enabled = defaultDataSourceConfig

\* the same, for any of the configurations
InitConfigured == ServiceInit /\ HookInit /\ enabled \in Configs

Next ==
  \/ \E o \in OperatorScopes : SubscribeToConversations(o, HOOK_CONVERSATION_LIMIT)
  \/ \E c \in Conversations : SubscribeToMessages(c, HOOK_MESSAGE_LIMIT)
  \/ \E u \in PresenceLists : SubscribeToPresence(u)
  \/ \E id \in 1..MaxTimers : TimerFire(id)
  \/ \E k \in ListenerKeys : Unsubscribe(k)
  \/ Cleanup
  \/ \E h \in 1..MaxTimers : Emit(h, 1)
  \/ \E h \in 1..MaxTimers : Deliver(h, MaxSessionReads)

Spec == Init /\ [][Next]_vars

\* the circuit breaker: one conversation watched through the hook's limit
NextLimit ==
  \/ \E c \in Conversations : SubscribeToMessages(c, HOOK_MESSAGE_LIMIT)
  \/ \E id \in 1..MaxTimers : TimerFire(id)
  \/ \E h \in 1..MaxTimers : Emit(h, HOOK_MESSAGE_LIMIT)
  \/ \E h \in 1..MaxTimers : Deliver(h, MaxReads)
  \/ \E c \in Conversations : LoadMoreCall(c)
  \/ LoadMoreResolve(LOAD_MORE_LIMIT, MaxReads)

SpecLimit == Init /\ [][NextLimit]_vars

\* the usage meter on its own, with the clock
NextUsage ==
  \/ \E n \in {1, HOOK_MESSAGE_LIMIT} : RecordReads(n)
  \/ RecordWrites(2)
  \/ GetUsageStatsCall
  \/ CheckRateLimitCall
  \/ Tick(MaxNow)

SpecUsage == Init /\ [][NextUsage]_vars

\* the expiring cache on its own, with the clock
NextCache ==
  \/ \E k \in CacheKeys, v \in CacheValues, d \in CacheDurations : SetCachedDataCall(k, v, d)
  \/ \E k \in CacheKeys : GetCachedDataCall(k)
  \/ Tick(MaxCacheNow)

SpecCache == Init /\ [][NextCache]_vars

\* the send path, with pagination consuming the read budget
NextSend ==
  \/ \E c \in Conversations, t \in SenderTypes, x \in Contents : SendMessage(c, t, x)
  \/ \E c \in Conversations, x \in Contents, u \in BOOLEAN : HookSendMessage(c, x, u)
  \/ \E i \in 1..MaxSends : BatchCommitOk(i)
  \/ \E i \in 1..MaxSends : BatchCommitFail(i)
  \/ \E c \in Conversations : LoadMoreCall(c)
  \/ LoadMoreResolve(LOAD_MORE_LIMIT, MaxReads)

SpecSend == Init /\ [][NextSend]_vars

\* sending to a conversation whose message list is watched and cached
NextSendWatched ==
  \/ \E c \in Conversations, l \in MessageLimits : SubscribeToMessages(c, l)
  \/ \E id \in 1..MaxTimers : TimerFire(id)
  \/ \E h \in 1..MaxTimers : Emit(h, 1)
  \/ \E h \in 1..MaxTimers : Deliver(h, MaxSessionReads)
  \/ \E c \in Conversations, x \in Contents, u \in BOOLEAN : HookSendMessage(c, x, u)
  \/ \E i \in 1..MaxSends : BatchCommitOk(i)
  \/ \E i \in 1..MaxSends : BatchCommitFail(i)

SpecSendWatched == Init /\ [][NextSendWatched]_vars

\* subscriptions the remote store may end with an error
NextFailure ==
  \/ \E o \in OperatorScopes : SubscribeToConversations(o, HOOK_CONVERSATION_LIMIT)
  \/ \E c \in Conversations : SubscribeToMessages(c, HOOK_MESSAGE_LIMIT)
  \/ \E id \in 1..MaxTimers : TimerFire(id)
  \/ \E k \in ListenerKeys : Unsubscribe(k)
  \/ \E h \in 1..MaxTimers : Emit(h, 1)
  \/ \E h \in 1..MaxTimers : Deliver(h, MaxSessionReads)
  \/ \E h \in 1..MaxTimers : ListenerError(h)

SpecFailure == Init /\ [][NextFailure]_vars

\* typing updates of two pairs beside a watched conversation, and cleanup
NextTyping ==
  \/ \E u \in TypingUsers, c \in TypingConversations, v \in BOOLEAN : SetTypingStatus(u, c, v)
  \/ \E id \in 1..MaxTimers : TypingTimerFire(id)
  \/ \E id \in 1..MaxTimers : TypingWriteDone(id)
  \/ \E id \in 1..MaxTimers : TypingWriteFail(id)
  \/ \E c \in Conversations : SubscribeToMessages(c, HOOK_MESSAGE_LIMIT)
  \/ \E id \in 1..MaxTimers : TimerFire(id)
  \/ \E h \in 1..MaxTimers : Emit(h, 1)
  \/ \E h \in 1..MaxTimers : Deliver(h, MaxSessionReads)
  \/ Cleanup

SpecTyping == Init /\ [][NextTyping]_vars

\* several consumers of the static service: each keeps the closure of its own
\* subscribe call and may invoke it at any time
NextClosures ==
  \/ \E op \in OperatorScopes : SubscribeToConversations(op, HOOK_CONVERSATION_LIMIT)
  \/ \E c \in Conversations : SubscribeToMessages(c, HOOK_MESSAGE_LIMIT)
  \/ \E id \in 1..MaxTimers : TimerFire(id)
  \/ \E i \in 1..MaxTimers : UnsubscribeClosure(i)
  \/ \E h \in 1..MaxTimers : Emit(h, 1)
  \/ \E h \in 1..MaxTimers : Deliver(h, MaxSessionReads)

SpecClosures == Init /\ [][NextClosures]_vars

\* one mounted hook: the operator opens a conversation, sends messages, receives
\* snapshots and pages back through the history
NextPaging ==
  \/ \E c \in Conversations : HookOpenConversation(c)
  \/ \E id \in 1..MaxTimers : TimerFire(id)
  \/ \E c \in Conversations, content \in Contents : HookSendMessage(c, content, TRUE)
  \/ \E i \in 1..MaxSends : BatchCommitOk(i)
  \/ \E h \in 1..MaxTimers, since \in 1..(MaxSends + 1) : MessagesSnapshot(h, since)
  \/ \E c \in Conversations : HookLoadMoreMessages(c)

SpecPaging == Init /\ [][NextPaging]_vars

\* raw records the origins deliver
WebhookRecords ==
  {[phone_number |-> <<"+", "1">>, name |-> <<"A", "v", "a">>, message |-> <<"H", "i">>, product |-> <<"T", "e", "e">>,
    timestamp |-> 1],
   [phone_number |-> <<"+", "1">>, name |-> <<"A", "v", "a">>, Message |-> <<"H", "i">>, Product |-> <<"T", "e", "e">>,
    timestamp |-> 2],
   [phone_number |-> <<"+", "2">>, name |-> <<"B", "o">>, message |-> <<"Y", "o">>, product |-> <<"C", "a", "p">>]}
FirebaseDocs ==
  {[id |-> <<"f", "1">>, phone_number |-> <<"+", "1">>, name |-> <<"A", "v", "a">>, message |-> <<"H", "i">>,
    product |-> <<"T", "e", "e">>, Time |-> 1],
   [id |-> <<"f", "2">>, Phone_number |-> <<"+", "1">>, Name |-> <<"A", "v", "a">>, Message |-> <<"H", "i">>,
    Product |-> <<"T", "e", "e">>, Time |-> 2],
   [id |-> <<"f", "3">>, phone_number |-> <<"+", "3">>, message |-> <<"O", "k">>, product |-> <<"M", "u", "g">>, Time |-> 3]}
\* results of the query orderBy('Time', 'desc')
FirebaseSnapshots ==
  {<<>>} \cup {<<d>> : d \in FirebaseDocs}
    \cup {<<p[1], p[2]>> : p \in {q \in FirebaseDocs \X FirebaseDocs : q[1].Time > q[2].Time}}
SheetHeader ==
  <<<<"p", "h", "o", "n", "e">>, <<"n", "a", "m", "e">>, <<"P", "r", "o", "d", "u", "c", "t">>,
    <<"C", "a", "t", "e", "g", "o", "r", "y">>, <<"I", "n", "t", "e", "n", "t">>, <<"M", "e", "s", "s", "a", "g", "e">>,
    <<"t", "i", "m", "e">>>>
SheetRows ==
  {<<<<"+", "1">>, <<"A", "v", "a">>, <<"T", "e", "e">>, <<"e", "n", "q", "u", "i", "r", "y">>, <<"g", "e", "n", "e", "r", "a", "l">>, <<"H", "i">>, 1>>,
   <<<<"+", "1">>, <<"A", "v", "a">>, <<"T", "e", "e">>, <<"e", "n", "q", "u", "i", "r", "y">>, <<"g", "e", "n", "e", "r", "a", "l">>, <<"H", "i">>, 2>>,
   <<<<"+", "4">>, <<"C", "y">>, <<"H", "a", "t">>, <<>>, <<>>, <<"H", "e", "y">>>>}
SheetTables ==
  {<<SheetHeader>>} \cup {<<SheetHeader, r>> : r \in SheetRows}
    \cup {<<SheetHeader, r, q>> : r \in SheetRows, q \in SheetRows}

\* useDataSources under any of the configurations
NextDataSources ==
  \/ \E r \in WebhookRecords : DataSources_fetchWebhookData(<<r>>)
  \/ \E docs \in FirebaseSnapshots : DataSources_firebaseFetched(docs)
  \/ \E rows \in SheetTables : SheetsFetched(rows)

SpecDataSources == InitConfigured /\ [][NextDataSources]_vars

\* remote collections of n documents whose instants are all different:
\* "time" documents carry Time alone, "received" documents carry ReceivedAt and
\* Time in the same order, in "late" the document with the earliest Time was
\* received last, in "untimed" the latest document carries createdAt and no Time
CollectionShapes == {"time", "received", "late", "untimed"}
CollectionSizes == {1, OPTIMIZED_FIREBASE_LIMIT, OPTIMIZED_FIREBASE_LIMIT + 1, MaxCollection}
TimedDoc(i, n, shape) ==
  LET base == [id |-> <<"d", i>>, Message |-> <<"m">>]
  IN CASE shape = "time" -> base @@ [Time |-> i]
       [] shape = "received" -> base @@ [Time |-> i, ReceivedAt |-> i]
       [] shape = "late" -> base @@ [Time |-> i, ReceivedAt |-> IF i = 1 THEN n + 1 ELSE i]
       [] shape = "untimed" -> IF i = n THEN base @@ [createdAt |-> i]
                               ELSE base @@ [Time |-> i]
TimedCollection(n, shape) == {TimedDoc(i, n, shape) : i \in 1..n}

\* documents of the two schemas, and documents that lack fields
OptimizedDocs ==
  {[id |-> <<"f", "1">>, Category |-> <<"C", "o", "m", "p", "l", "a", "i", "n", "t">>, Message |-> <<"H", "i">>, Sender |-> <<"O", "p", "e", "r", "a", "t", "o", "r">>,
    Product |-> <<"T", "e", "e">>, Time |-> 1],
   [id |-> <<"f", "2">>, category |-> <<"C", "o", "m", "p", "l", "a", "i", "n", "t">>, message |-> <<"H", "i">>, sender |-> <<"O", "p", "e", "r", "a", "t", "o", "r">>,
    product |-> <<"T", "e", "e">>, Time |-> 2],
   [id |-> <<"f", "3">>, Time |-> 3],
   [id |-> <<"f", "4">>, name |-> <<>>, message |-> <<>>, category |-> <<"r", "e", "f", "u", "n", "d">>, Time |-> 4],
   [id |-> <<"f", "5">>, customer_name |-> <<"B", "o">>, message_body |-> <<"Y", "o">>, Sender |-> <<"O", "P", "E", "R", "A", "T", "O", "R">>,
    Time |-> 5],
   [id |-> <<"f", "6">>, Name |-> <<"A", "v", "a">>, Message |-> <<"O", "k">>, sender |-> <<"C", "u", "s", "t", "o", "m", "e", "r">>, Time |-> 6]}
FieldCollections == {c \in SUBSET OptimizedDocs : Cardinality(c) \in 1..2}

\* useOptimizedDataSources under any of the configurations, the reads of the
\* service counted in steps of one message list
NextOptimized ==
  \/ \E coll \in FieldCollections : Optimized_firebaseFetched(coll)
  \/ Optimized_firebaseDisabled
  \/ Optimized_checkRateLimit
  \/ RecordReads(HOOK_MESSAGE_LIMIT)

SpecOptimized == InitConfigured /\ [][NextOptimized]_vars

\* the fetches of useOptimizedDataSources over collections of any size
RemoteCollections ==
  {TimedCollection(n, shape) : n \in CollectionSizes, shape \in CollectionShapes}
    \cup FieldCollections

NextWindow == \E coll \in RemoteCollections : Optimized_firebaseFetched(coll)

SpecWindow == InitConfigured /\ [][NextWindow]_vars

\* spellings of categories: every entry of the table in four letter cases and
\* with white space around it, and texts the table does not have
LetterCases == {"lower", "upper", "title", "alternate"}
UpperChar(ch) ==
  IF \E k \in 1..26 : LowerCaseLetters[k] = ch
  THEN UpperCaseLetters[CHOOSE k \in 1..26 : LowerCaseLetters[k] = ch]
  ELSE ch
Cased(str, case) ==
  [i \in 1..Len(str) |->
     IF \/ case = "upper"
        \/ case = "title" /\ i = 1
        \/ case = "alternate" /\ i % 2 = 0
     THEN UpperChar(str[i]) ELSE str[i]]
Pads == {<<>>, <<" ">>, <<"\t", " ">>, <<"\n">>}
OtherCategories ==
  {Undefined, <<>>, <<" ">>, <<"o", "r", "d", "e", "r", "s">>, <<"f", "o", "l", "l", "o", "w", " ", " ", "u", "p">>,
   <<"f", "o", "l", "l", "o", "w", "_", "u", "p">>, <<"r", "e", " ", "t", "u", "r", "n">>,
   <<"u", "r", "g", "e", "n", "t">>}
CategoryInputs ==
  {pre \o Cased(SynonymTable[k].spelling, case) \o post :
     k \in 1..Len(SynonymTable), case \in LetterCases, pre \in Pads, post \in Pads}
    \cup OtherCategories

NextCategory == \E category \in CategoryInputs : MapWebhookCategoryCall(category)

SpecCategory == Init /\ [][NextCategory]_vars

(* ---------------- the subscription coalescer ---------------- *)
TimersOf(key) == {t \in 1..Len(timers) : timers[t].key = key}
PendingOf(key) == {t \in pendingTimers : timers[t].key = key}
LiveOf(key) == {h \in DOMAIN handles : timers[h].key = key /\ handles[h].active}
\* the most recent setupDebouncedListener call for a key
Latest(key) == CHOOSE t \in TimersOf(key) : \A u \in TimersOf(key) : u <= t

\* C1: a factory that runs is that of the latest setupDebouncedListener call for
\* its key (one superseded while its timer was pending never runs), and when it
\* has run the key has exactly one live subscription, the one it produced, and
\* the registry holds it.
C1_OnlyLatestFactoryRuns ==
  out.op = "factory" =>
    /\ out.id = Latest(out.key)
    /\ LiveOf(out.key) = {out.id}
    /\ Registered(activeListeners, out.key) = out.id

\* f2 superseded the pending f1, f2's timer has fired, f1 never ran
C1_Witness ==
  /\ out.op = "factory"
  /\ timers[out.id].over # 0
  /\ timers[out.id].over \notin DOMAIN handles
  /\ timers[timers[out.id].over].key = out.key

\* C2: every key has at most one pending settle timer and at most one
\* subscription that has been made and not cancelled.
C2_AtMostOnePerKey ==
  \A k \in ListenerKeys : Cardinality(PendingOf(k)) <= 1 /\ Cardinality(LiveOf(k)) <= 1

\* a key set up more than once whose timer is pending, beside a live subscription
C2_Witness ==
  /\ \E k \in ListenerKeys : Cardinality(TimersOf(k)) >= 2 /\ Cardinality(PendingOf(k)) = 1
  /\ \E k \in ListenerKeys : Cardinality(LiveOf(k)) = 1

Current(h) == handles[h].active /\ Registered(activeListeners, timers[h].key) = h

\* C4: a payload of a handle that is no longer the registered handle of its key
\* is neither cached nor passed to the callback.
C4_StalePayloadDiscarded ==
  (out.op = "snapshot" /\ ~Current(out.id)) => (~out.cb /\ ~out.wr)

\* C5: after the returned unsubscribe function has run neither registry has an
\* entry for the key, no timer of the key is pending, no subscription of the
\* key is live, and a timer that is neither pending nor fired never fires.
C5_UnsubscribeClearsBoth ==
  /\ [](out.op = "unsubscribe" =>
          /\ out.key \notin DOMAIN debounceTimers
          /\ out.key \notin DOMAIN activeListeners
          /\ PendingOf(out.key) = {}
          /\ LiveOf(out.key) = {}
          /\ out.timer # 0 => out.timer \notin DOMAIN handles
          /\ out.handle # 0 => ~handles[out.handle].active)
  /\ [][\A t \in 1..Len(timers) :
          (t \notin pendingTimers /\ t \notin DOMAIN handles) => t \notin DOMAIN handles']_vars

\* the function ran with a pending timer and a materialized handle registered
C5_Witness ==
  /\ out.op = "unsubscribe"
  /\ out.timer # 0
  /\ out.handle # 0

(* ---------------- the expiring cache ---------------- *)
\* C6 as amended: setCachedData at time s with duration d stores the value with
\* expiresAt = s + d; getCachedData returns it unchanged for every read at a
\* time <= s + d and reports it absent for every read at a time > s + d, and
\* reports a key that has no entry absent.
C6_ValueUntilDeadlineInclusive ==
  [][/\ out'.op = "setCachedData" =>
          cache'[out'.key] = [data |-> out'.data, timestamp |-> now,
                              expiresAt |-> now + out'.duration]
     /\ (out'.op = "getCachedData" /\ out'.key \in DOMAIN cache) =>
          out'.val = IF now <= cache[out'.key].expiresAt
                     THEN <<cache[out'.key].data>> ELSE <<>>
     /\ (out'.op = "getCachedData" /\ out'.key \notin DOMAIN cache) => out'.val = <<>>]_vars

\* a read at exactly s + d has returned the stored value
C6_Witness ==
  /\ out.op = "getCachedData"
  /\ out.key \in DOMAIN cache
  /\ now = cache[out.key].expiresAt
  /\ now = cache[out.key].timestamp + CACHE_DURATION
  /\ out.val = <<cache[out.key].data>>

\* C6 as claimed: returned for every read at a time < s + d, absent for every
\* read at a time >= s + d.
C6_AbsentFromDeadline ==
  [][(out'.op = "getCachedData" /\ out'.key \in DOMAIN cache) =>
       out'.val = IF now < cache[out'.key].expiresAt
                  THEN <<cache[out'.key].data>> ELSE <<>>]_vars

(* ---------------- the usage meter ---------------- *)
\* C7: a getUsageStats call at or after lastReset + 24 hours sets reads and
\* writes to 0 and lastReset to the current time; an earlier call changes
\* nothing; the call returns the stats it leaves.
C7_WindowResetsAt24Hours ==
  [][out'.op = "getUsageStats" =>
       /\ usageStats' = IF now >= usageStats.lastReset + RESET_HOURS * MS_PER_HOUR
                        THEN [reads |-> 0, writes |-> 0, lastReset |-> now]
                        ELSE usageStats
       /\ out'.res = usageStats']_vars

\* the call at exactly lastReset + 24 hours has reset counters above the ceiling
C7_Witness ==
  /\ out.op = "getUsageStats"
  /\ out.was.reads > maxReadsPerDay
  /\ out.was.writes > 0
  /\ now = out.was.lastReset + RESET_HOURS * MS_PER_HOUR
  /\ usageStats = [reads |-> 0, writes |-> 0, lastReset |-> now]

\* C8: within a usage window checkRateLimit returns true exactly when reads is
\* at most the ceiling, and leaves the stats alone.
C8_FalseOnlyAboveCeiling ==
  (out.op = "checkRateLimit" /\ now < out.was.lastReset + RESET_HOURS * MS_PER_HOUR) =>
    /\ out.res <=> (out.was.reads <= maxReadsPerDay)
    /\ usageStats = out.was

\* the first value above the ceiling has been refused
C8_Witness ==
  /\ out.op = "checkRateLimit"
  /\ now < out.was.lastReset + RESET_HOURS * MS_PER_HOUR
  /\ out.was.reads = maxReadsPerDay + 1
  /\ ~out.res

\* C9: no subscription factory runs and no loadMoreMessages query is issued
\* while checkRateLimit would return false.
C9_NoReadOverCeiling ==
  (out.op \in {"factory", "getDocs"} /\ out.rd) => CheckRateLimit(usageStats, now)

MessagesOf(c) == {i \in 1..Len(storeMsgs) : storeMsgs[i].conv = c}
LastMessageOf(c) ==
  IF MessagesOf(c) = {} THEN 0
  ELSE CHOOSE i \in MessagesOf(c) : \A j \in MessagesOf(c) : j <= i

\* C11: in every state of the remote store the conversation document reflects
\* exactly the messages the store holds for it (lastMessageAt is that of its
\* last message), and a step changes the messages exactly when it changes the
\* conversation document: a failed commit leaves neither write behind.
C11_BatchIsAtomic ==
  /\ [](\A c \in Conversations : storeConv[c].lastMessageAt = LastMessageOf(c))
  /\ [][(storeMsgs' # storeMsgs) <=> (storeConv' # storeConv)]_vars

\* a commit has failed after an earlier one was applied: the store is unchanged
C11_Witness ==
  /\ out.op = "sendFailed"
  /\ Len(storeMsgs) > 0
  /\ storeConv[out.conv].lastMessageAt = Len(storeMsgs)

\* C12: after a successful sendMessage the cache holds no message list of the
\* conversation, for any limit it was cached with.
C12_NoCachedListAfterSend ==
  out.op = "sent" =>
    \A l \in MessageLimits : GetCachedData(cache, MsgCacheKey(out.conv, l), now) = <<>>

\* C13: a successful sendMessage adds exactly 2 to writes and leaves reads and
\* lastReset as they were.
C13_TwoWritesPerSend ==
  [][out'.op = "sent" =>
       usageStats' = [usageStats EXCEPT !.writes = @ + 2]]_vars

\* a second send has succeeded, with reads already counted
C13_Witness ==
  /\ out.op = "sent"
  /\ usageStats.writes = 4
  /\ usageStats.reads > 0

\* customer messages of c committed after its last operator message
RECURSIVE UnreadOf(_, _)
UnreadOf(c, n) ==
  IF n = 0 THEN 0
  ELSE IF storeMsgs[n].conv # c THEN UnreadOf(c, n - 1)
  ELSE IF storeMsgs[n].senderType = "operator" THEN 0
  ELSE 1 + UnreadOf(c, n - 1)

\* C14: unreadCount is the number of customer messages sent to the conversation
\* since its last operator message, and is never negative.
C14_UnreadCountsInbound ==
  \A c \in Conversations :
    /\ storeConv[c].unreadCount = UnreadOf(c, Len(storeMsgs))
    /\ storeConv[c].unreadCount >= 0

\* an operator message has reset a count raised by a customer message
C14_Witness ==
  /\ out.op = "sent"
  /\ Len(storeMsgs) >= 2
  /\ storeMsgs[Len(storeMsgs)].senderType = "operator"
  /\ storeMsgs[Len(storeMsgs) - 1].senderType = "customer"
  /\ storeConv[out.conv].unreadCount = 0

(* ---------------- the aggregate of the data sources ---------------- *)
SameContent(a, b) ==
  a.phone_number = b.phone_number /\ a.message = b.message /\ a.product = b.product

\* C15: the aggregate never holds two messages of different origins with the
\* same (phone_number, message, product): records the origins deliver with
\* identical content yield one unified message, in whatever order they arrive.
C15_OneMessagePerContent ==
  \A i, j \in 1..Len(DataSources_messages) :
    (i # j /\ DataSources_messages[i].source # DataSources_messages[j].source) =>
      ~SameContent(DataSources_messages[i], DataSources_messages[j])

\* the position of an origin in the enabled list
RECURSIVE IndexIn(_, _)
IndexIn(list, x) == IF list = <<>> \/ Head(list) = x THEN 1 ELSE 1 + IndexIn(Tail(list), x)

\* the order in which getAllMessages pushes the origins
PushOrder(src) == CASE src = WEBHOOK -> 1 [] src = FIREBASE -> 2 [] src = GOOGLE_SHEETS -> 3

\* C17 as amended: the aggregate is sorted by timestamp descending, and messages
\* with equal timestamps appear in the fixed order webhook, firebase,
\* google_sheets, whatever the order of the enabled list.
C17_TiesInPushOrder ==
  \A i, j \in 1..Len(DataSources_messages) :
    i < j =>
      \/ DataSources_messages[i].timestamp > DataSources_messages[j].timestamp
      \/ /\ DataSources_messages[i].timestamp = DataSources_messages[j].timestamp
         /\ PushOrder(DataSources_messages[i].source) <= PushOrder(DataSources_messages[j].source)

\* three messages of two origins, two of them with equal timestamps, under a
\* configuration that lists the origins in another order
C17_Witness ==
  /\ enabled = <<GOOGLE_SHEETS, FIREBASE, WEBHOOK>>
  /\ Len(DataSources_messages) >= 3
  /\ \E i \in 1..(Len(DataSources_messages) - 1) :
       /\ DataSources_messages[i].timestamp = DataSources_messages[i + 1].timestamp
       /\ DataSources_messages[i].source # DataSources_messages[i + 1].source
  /\ \E i \in 1..(Len(DataSources_messages) - 1) :
       DataSources_messages[i].timestamp > DataSources_messages[i + 1].timestamp

\* C17 as claimed: messages with equal timestamps appear in the order of their
\* origins in the enabled list.
C17_TiesInEnabledOrder ==
  \A i, j \in 1..Len(DataSources_messages) :
    i < j =>
      \/ DataSources_messages[i].timestamp > DataSources_messages[j].timestamp
      \/ /\ DataSources_messages[i].timestamp = DataSources_messages[j].timestamp
         /\ IndexIn(enabled, DataSources_messages[i].source)
              <= IndexIn(enabled, DataSources_messages[j].source)

\* the unified messages of the documents of a remote collection
NormalizedOf(coll) == {Optimized_firebaseMessage(d, 0, now) : d \in coll}
\* the k messages of a set with the latest timestamps
MostRecent(msgs, k) ==
  {m \in msgs : Cardinality({o \in msgs : o.timestamp > m.timestamp}) < k}
DistinctTimestamps(msgs) ==
  \A m \in msgs : \A o \in msgs : m.timestamp = o.timestamp => m = o
IdsOf(list) == {list[i].id : i \in 1..Len(list)}

\* C16: when the enabled origins hold more than 100 messages with distinct
\* timestamps, the aggregate is exactly the 100 most recent of them: nothing is
\* cut before the sort. Here the messages are the documents of the Firestore
\* collection, the one origin of this hook that delivers records.
C16_HundredMostRecent ==
  (/\ out.op = "firebaseFetched"
   /\ Cardinality(out.collection) > AGGREGATE_SLICE
   /\ DistinctTimestamps(NormalizedOf(out.collection)))
    => IdsOf(Optimized_messages)
         = {m.id : m \in MostRecent(NormalizedOf(out.collection), AGGREGATE_SLICE)}

\* the fields getFirebaseMessages tries for the name and for the message
NameFields == {"Profile Name", "name", "Name", "customer_name", "Customer_name"}
MessageFields == {"Message", "message", "Message_body", "message_body"}
HasNone(doc, fields) == \A f \in fields : ~Truthy(F(doc, f))
CountOf(list, id) == Cardinality({j \in 1..Len(list) : list[j].id = id})

SameLetter(a, b) ==
  a = b \/ \E k \in 1..26 : {a, b} = {UpperCaseLetters[k], LowerCaseLetters[k]}
Spells(c, s) ==
  /\ c # Undefined
  /\ \E i \in 0..Len(c) :
       /\ i + Len(s) <= Len(c)
       /\ \A k \in 1..i : IsWhitespace(c[k])
       /\ \A k \in 1..Len(s) : SameLetter(c[i + k], s[k])
       /\ \A k \in (i + Len(s) + 1)..Len(c) : IsWhitespace(c[k])

\* C19: mapWebhookCategory maps every spelling of the table, in any letter case
\* and with any white space before and after it, to the category of that
\* spelling, and every other argument (the empty text and a missing one too) to
\* enquiries.
C19_CategoryOfAnySpelling ==
  out.op = "mapWebhookCategory" =>
    /\ \A k \in 1..Len(SynonymTable) :
         Spells(out.category, SynonymTable[k].spelling)
           => out.res = SynonymTable[k].category
    /\ (\A k \in 1..Len(SynonymTable) : ~Spells(out.category, SynonymTable[k].spelling))
         => out.res = "enquiries"

\* " FoLlOw-uP" followed by a tab and a space has been mapped to follow-ups
C19_Witness ==
  /\ out.op = "mapWebhookCategory"
  /\ out.category = <<" ">> \o Cased(<<"f", "o", "l", "l", "o", "w", "-", "u", "p">>, "alternate") \o <<"\t", " ">>
  /\ out.res = "follow-ups"

\* the record with every capitalized field of the four renamed to lowercase,
\* and the other way round
SchemaPairs ==
  {<<"Category", "category">>, <<"Message", "message">>, <<"Sender", "sender">>,
   <<"Product", "product">>}
Renamed(f, from, to) ==
  IF \E q \in SchemaPairs : q[from] = f
  THEN (CHOOSE q \in SchemaPairs : q[from] = f)[to] ELSE f
Respelled(doc, from, to) ==
  [g \in {Renamed(f, from, to) : f \in DOMAIN doc} |->
     doc[CHOOSE f \in DOMAIN doc : Renamed(f, from, to) = g]]
\* the record has fields of one spelling and none of the other
OnlySpelling(doc, mine, other) ==
  /\ \E q \in SchemaPairs : q[mine] \in DOMAIN doc
  /\ \A q \in SchemaPairs : q[other] \notin DOMAIN doc
SchemaValues(msg) == <<msg.category, msg.sender, msg.message, msg.product>>

\* C20: a record that has only the capitalized fields Category, Message, Sender,
\* Product and the record that has the same values under the lowercase names
\* get equal category, sender, message and product, from the Firestore
\* normalizer and from the sheet normalizer (the record read as a sheet row).
C20_SchemaInvariant ==
  (Includes(enabled, FIREBASE) /\ ~isRateLimited) =>
    \A i \in 1..Len(firebaseData) :
      LET doc == firebaseData[i]
          msg == Optimized_getFirebaseMessages(enabled, firebaseData, isRateLimited, now)[i]
      IN \A way \in {<<1, 2>>, <<2, 1>>} :
           OnlySpelling(doc, way[1], way[2]) =>
             /\ SchemaValues(msg)
                  = SchemaValues(Optimized_firebaseMessage(
                                   Respelled(doc, way[1], way[2]), i - 1, now))
             /\ SchemaValues(Optimized_sheetsMessage(doc, i - 1, now))
                  = SchemaValues(Optimized_sheetsMessage(
                                   Respelled(doc, way[1], way[2]), i - 1, now))

\* a record with the four capitalized fields alone is held; it came from an
\* operator and its message says so
C20_Witness ==
  /\ out.op = "firebaseFetched"
  /\ ~isRateLimited
  /\ \E i \in 1..Len(firebaseData) :
       /\ \A q \in SchemaPairs : q[1] \in DOMAIN firebaseData[i]
       /\ OnlySpelling(firebaseData[i], 1, 2)
       /\ Optimized_messages[i].sender = "operator"
       /\ Optimized_messages[i].category = firebaseData[i].Category
       /\ Optimized_messages[i].message = firebaseData[i].Message
       /\ Optimized_messages[i].product = firebaseData[i].Product

(* ---------------- validation and failure of a send ---------------- *)
Blank(content) == Trim(content) = <<>>

\* C21: a send whose content is empty or white space only, made through the
\* hook (the one caller of OptimizedChatService.sendMessage), changes nothing:
\* no batch is submitted, the store, the usage counters and the cache stay as
\* they are; so no batch and no stored message ever has blank content.
C21_BlankSendRejected ==
  /\ [](/\ \A i \in 1..Len(pendingBatches) : ~Blank(pendingBatches[i].content)
        /\ \A i \in 1..Len(storeMsgs) : ~Blank(storeMsgs[i].content))
  /\ [][(out'.op = "sendMessage" /\ out'.via = "hook" /\ Blank(out'.content))
          => /\ ~out'.submitted
             /\ UNCHANGED <<pendingBatches, storeMsgs, storeConv, usageStats, cache>>]_vars

\* a signed-in user has sent a single space after an earlier message was
\* committed, while the conversation's list is cached: nothing was submitted
C21_Witness ==
  /\ out.op = "sendMessage"
  /\ out.via = "hook"
  /\ out.user
  /\ out.content = <<" ">>
  /\ ~out.submitted
  /\ pendingBatches = <<>>
  /\ usageStats.writes = 2
  /\ cache # EmptyMap

(* ---------------- the approaching-limit warning ---------------- *)
\* C22 as amended: for every reads value above 80% of the ceiling and not
\* above the ceiling checkRateLimit logs the approaching-limit warning and
\* returns true; for every reads value of 80% of the ceiling or less it returns
\* true without the warning.
C22_WarnsAboveEightyPercent ==
  out.op = "checkRateLimit" =>
    /\ (usageStats.reads * 10 > maxReadsPerDay * 8 /\ usageStats.reads <= maxReadsPerDay)
         => (out.res /\ out.warned)
    /\ usageStats.reads * 10 <= maxReadsPerDay * 8 => (out.res /\ ~out.warned)

\* checkRateLimit has been called with reads one above 80% of the ceiling
C22_Witness ==
  /\ out.op = "checkRateLimit"
  /\ usageStats.reads * 10 = maxReadsPerDay * 8 + 10
  /\ out.res
  /\ out.warned

\* C22 as stated: the warning is logged for every reads value from 80% of the
\* ceiling up to the ceiling, and for no value below 80%.
C22_WarnsFromEightyPercent ==
  out.op = "checkRateLimit" =>
    /\ (usageStats.reads * 10 >= maxReadsPerDay * 8 /\ usageStats.reads <= maxReadsPerDay)
         => (out.res /\ out.warned)
    /\ usageStats.reads * 10 < maxReadsPerDay * 8 => (out.res /\ ~out.warned)

(* ---------------- remote failure of a subscription ---------------- *)
\* C23: when the remote store fails a subscription the failure is surfaced to
\* the caller and the key enters an error state: the registry no longer holds
\* the failed subscription as the key's live one. (No retry is scheduled.)
C23_FailureSurfaced ==
  out.op = "listenerError" =>
    /\ out.cb
    /\ Registered(activeListeners, out.key) # out.id

(* ---------------- typing ---------------- *)
\* C24: typing updates are debounced per pair with timers of their own: at
\* any moment at most one timer of a pair is pending, that of the pair's last
\* setTypingStatus call (a burst ends in one write, carrying the last value),
\* and a setTypingStatus call leaves the pending timers of every other key,
\* of another pair or of a subscription, pending.
C24_OneWritePerBurst ==
  /\ [](\A k \in TypingKeys : PendingOf(k) # {} => PendingOf(k) = {Latest(k)})
  /\ [][out'.op = "setTypingStatus"
          => \A t \in pendingTimers : timers[t].key # out'.key => t \in pendingTimers']_vars

\* C27: the registry entry of a typing key is the timer scheduled last that
\* has not fired: every pending typing timer is the one registered under its
\* key, so the next call can cancel it.
C27_RegistryHoldsPendingTimer ==
  \A t \in pendingTimers :
    timers[t].key \in TypingKeys => Registered(debounceTimers, timers[t].key) = t

(* ---------------- cleanup ---------------- *)
\* C29: after cleanup the timer registry, the listener registry and the cache
\* are empty, every subscription that was made is cancelled, and no timer is
\* left pending, so no factory and no typing write runs afterwards; cleanup
\* leaves the usage counters as they are.
C29_CleanupLeavesNothing ==
  /\ [](out.op = "cleanup" =>
          /\ debounceTimers = EmptyMap
          /\ activeListeners = EmptyMap
          /\ cache = EmptyMap
          /\ \A h \in DOMAIN handles : ~handles[h].active
          /\ pendingTimers = {})
  /\ [][out'.op = "cleanup" => usageStats' = usageStats]_vars

\* the unified messages one origin contributes to the aggregate
DeliveredBy(origin) ==
  IF ~Includes(enabled, origin) THEN <<>>
  ELSE IF origin = WEBHOOK THEN webhookMessages
  ELSE IF origin = FIREBASE THEN DataSources_getFirebaseMessages(enabled, firebaseData, now)
  ELSE DataSources_getSheetsMessages(enabled, sheetsData, now)

\* C25: when the primary origin and another enabled origin deliver the same
\* logical message (same phone, text and product), every message of that
\* content in the aggregate has the primary origin as its source.
C25_PrimaryCopyKept ==
  \A other \in {WEBHOOK, FIREBASE, GOOGLE_SHEETS} \ {Primary(enabled)} :
    \A i \in 1..Len(DeliveredBy(Primary(enabled))) :
      \A j \in 1..Len(DeliveredBy(other)) :
        SameContent(DeliveredBy(Primary(enabled))[i], DeliveredBy(other)[j]) =>
          \A k \in 1..Len(DataSources_messages) :
            SameContent(DataSources_messages[k], DeliveredBy(other)[j]) =>
              DataSources_messages[k].source = Primary(enabled)

\* C26: after any sequence of snapshot deliveries and loadMoreMessages calls,
\* the hook's message list of a conversation holds each message id at most
\* once and is ordered by timestamp ascending.
C26_ListDistinctAscending ==
  \A c \in Conversations :
    \A i, j \in 1..Len(chatMessages[c]) :
      i < j => /\ chatMessages[c][i].id # chatMessages[c][j].id
               /\ chatMessages[c][i].timestamp <= chatMessages[c][j].timestamp

\* C28: invoking the unsubscribe closure of a subscribe call that a newer call
\* of the same listener key has superseded cancels neither the newer call's
\* pending timer nor its live subscription.
C28_SupersededClosureHarmless ==
  [][\A i, j \in 1..Len(timers) :
       (i < j /\ timers[i].key = timers[j].key /\ UnsubscribeClosure(i)) =>
         /\ j \in pendingTimers => j \in pendingTimers'
         /\ (j \in DOMAIN handles /\ handles[j].active) => handles'[j].active]_vars

\* C30: when the batched write of sendMessage fails, the caller gets the
\* rejection and local state is as before: the usage counters (writes
\* included) are not changed and no cache entry is removed.
C30_FailedSendLeavesLocalState ==
  [][out'.op = "sendFailed" =>
       /\ out'.rejected
       /\ usageStats' = usageStats
       /\ cache' = cache]_vars

\* a commit has failed while the conversation's list of the default limit was
\* cached: the entry is still there and no write has been counted
C30_Witness ==
  /\ out.op = "sendFailed"
  /\ out.rejected
  /\ MsgCacheKey(out.conv, DEFAULT_MESSAGE_LIMIT) \in DOMAIN cache
  /\ usageStats.writes = 0

====
